---- MODULE Spec2Model ----
(***************************************************************************)
(* A model of examples/perceptron/perceptron.py: synthetic data            *)
(* generation, network initialisation, the forward pass and the two        *)
(* evaluation functions.                                                    *)
(*                                                                         *)
(* Numbers.  Features, weights and biases are integers.  Probabilities     *)
(* and thresholds are fixed-point numbers with three decimals (500 is      *)
(* 0.5).  Loss values are extended reals: a finite fixed-point number,     *)
(* +inf, -inf or nan, as numpy produces them for log10(0).                  *)
(***************************************************************************)
EXTENDS Integers, Sequences, FiniteSets

VARIABLES
    input,  \* the arguments of the one call a function-level run makes
    call,   \* the most recent call: its function, arguments and outcome
    kept    \* a result of an earlier call that the caller still holds

vars == <<input, call, kept>>

------------------------------------------------------------------------------
(* Bounds of the model *)

MaxLen == 3          \* longest Y / Y_hat / sigmoids sequence
MaxRows == 2         \* most rows of X
MaxCols == 2         \* most columns of X, longest weight vector
MaxRepeatLen == 2    \* longest Y / Y_hat in a run of repeated evaluations

Labels == {0, 1, 2}          \* entries of Y and Y_hat (2: a non-binary value)
Binary == {0, 1}
Features == {0, 1}           \* entries of X
WeightVals == {-1, 1}        \* entries of weights
Scale == 10 ^ 3              \* fixed-point unit of probabilities

Min(a, b) == IF a <= b THEN a ELSE b
Max(a, b) == IF a >= b THEN a ELSE b
SeqsUpTo(S, n) == UNION {[1..k -> S] : k \in 0..n}

NoCall == [fn |-> "none"]
NoInput == [fn |-> "none"]
Nothing == [fn |-> "none"]

------------------------------------------------------------------------------
(* confusion_matrix *)

\* A module-level accumulator instead of locals: the counters of the previous
\* evaluation are carried into the next one.
cm_init_stale ==
    IF call.fn = "confusion_matrix" /\ call.out.status = "ok"
    THEN [tp |-> call.out.matrix[1][1], fn |-> call.out.matrix[1][2],
          fp |-> call.out.matrix[2][1], tn |-> call.out.matrix[2][2]]
    ELSE [tp |-> 0, tn |-> 0, fp |-> 0, fn |-> 0]

\* The four counters before the loop.
cm_init == [tp |-> 0, tn |-> 0, fp |-> 0, fn |-> 0]

\* One iteration of the loop body on the pair (i, j).
cm_step(c, i, j) ==
    IF i = 1 /\ i = j THEN [c EXCEPT !.tp = @ + 1]
    ELSE IF i = 1 THEN [c EXCEPT !.fn = @ + 1]
    ELSE IF i = 0 /\ i = j THEN [c EXCEPT !.tn = @ + 1]
    ELSE [c EXCEPT !.fp = @ + 1]

\* Pairing up to the longer sequence, the missing side read as 0.
zip_longest(Y, Y_hat) ==
    [k \in 1..Max(Len(Y), Len(Y_hat)) |->
        <<IF k <= Len(Y) THEN Y[k] ELSE 0,
          IF k <= Len(Y_hat) THEN Y_hat[k] ELSE 0>>]

\* zip(Y, Y_hat): the pairs up to the shorter sequence.
zip(Y, Y_hat) == [k \in 1..Min(Len(Y), Len(Y_hat)) |-> <<Y[k], Y_hat[k]>>]

RECURSIVE cm_loop(_, _, _)
cm_loop(pairs, k, c) ==
    IF k > Len(pairs) THEN c
    ELSE cm_loop(pairs, k + 1, cm_step(c, pairs[k][1], pairs[k][2]))

\* The two off-diagonal cells exchanged.
cm_matrix_swapped(c) == << <<c.tp, c.fp>>, <<c.fn, c.tn>> >>

\* The matrix the counters are stored into: row 0 = [tp, fn], row 1 = [fp, tn].
cm_matrix(c) == << <<c.tp, c.fn>>, <<c.fp, c.tn>> >>

confusion_matrix(Y, Y_hat) ==
    [status |-> "ok",
     matrix |-> cm_matrix(cm_loop(zip(Y, Y_hat), 1, cm_init)),
     Y |-> Y, Y_hat |-> Y_hat]

------------------------------------------------------------------------------
(* cross_entropy *)

\* Extended reals, as numpy's floats: finite (fixed point), +inf, -inf, nan.
Fin(v) == [k |-> "fin", v |-> v]
PosInf == [k |-> "inf", v |-> 0]
NegInf == [k |-> "ninf", v |-> 0]
NaN == [k |-> "nan", v |-> 0]

\* The probabilities the model feeds to cross_entropy: 0, 0.1, 0.5, 0.9, 1.
ProbGrid == {0, Scale \div 10, Scale \div 2, Scale - Scale \div 10, Scale}

\* np.log10 on the grid, three decimals; log10(0) is -inf (a warning, no error).
log10(p) ==
    CASE p = 0 -> NegInf
      [] p = Scale \div 10 -> Fin(-1000)
      [] p = Scale \div 2 -> Fin(-301)
      [] p = Scale - Scale \div 10 -> Fin(-46)
      [] p = Scale -> Fin(0)

\* int * float
f_times(y, x) ==
    CASE x.k = "fin" -> Fin(y * x.v)
      [] x.k = "nan" -> NaN
      [] OTHER -> IF y = 0 THEN NaN
                  ELSE IF (y > 0) = (x.k = "inf") THEN PosInf ELSE NegInf

\* float + float
f_plus(a, b) ==
    CASE a.k = "nan" \/ b.k = "nan" -> NaN
      [] a.k = "fin" /\ b.k = "fin" -> Fin(a.v + b.v)
      [] a.k = "fin" -> b
      [] b.k = "fin" -> a
      [] OTHER -> IF a.k = b.k THEN a ELSE NaN

\* -float
f_neg(a) ==
    CASE a.k = "fin" -> Fin(0 - a.v)
      [] a.k = "inf" -> NegInf
      [] a.k = "ninf" -> PosInf
      [] OTHER -> NaN

\* -(y*log10(p) + (1-y)*log10(1-p))
cross_entropy_loss(y, sigmoid_value) ==
    f_neg(f_plus(f_times(y, log10(sigmoid_value)),
                 f_times(1 - y, log10(Scale - sigmoid_value))))

\* Iterating over the paired part only, as zip would.
ce_examples_zip(Y, sigmoids) == Min(Len(Y), Len(sigmoids))

\* The number of iterations: len(Y).
ce_examples(Y, sigmoids) == Len(Y)

RECURSIVE ce_loop(_, _, _, _, _)
ce_loop(Y, sigmoids, m_examples, i, cost) ==
    IF i > m_examples THEN [status |-> "ok", cost |-> cost]
    ELSE IF i > Len(sigmoids) THEN [status |-> "IndexError", index |-> i - 1]
    ELSE ce_loop(Y, sigmoids, m_examples, i + 1,
                 Append(cost, cross_entropy_loss(Y[i], sigmoids[i])))

cross_entropy(Y, sigmoids) ==
    ce_loop(Y, sigmoids, ce_examples(Y, sigmoids), 1, <<>>)

------------------------------------------------------------------------------
(* get_weighted_sum, sigmoid, forward_prop *)

\* A numpy value that is a scalar or an array of shape (1,).
Num(shape, v) == [shape |-> shape, v |-> v]

RECURSIVE dot(_, _, _)
dot(a, b, n) == IF n = 0 THEN 0 ELSE dot(a, b, n - 1) + a[n] * b[n]

\* A dot product over the common prefix, with no shape check.
get_weighted_sum_unchecked(features, weights, bias) ==
    [status |-> "ok",
     v |-> Num(bias.shape,
               dot(features, weights, Min(Len(features), Len(weights))) + bias.v)]

\* np.dot(features, weights) + bias for one example; np.dot raises ValueError
\* when the two lengths differ.
get_weighted_sum(features, weights, bias) ==
    IF Len(features) # Len(weights) THEN [status |-> "ValueError"]
    ELSE [status |-> "ok",
          v |-> Num(bias.shape, dot(features, weights, Len(features)) + bias.v)]

\* np.exp(k) for an integer k, fixed point.
RECURSIVE np_exp(_)
np_exp(k) ==
    IF k = 0 THEN Scale
    ELSE IF k > 0 THEN (np_exp(k - 1) * 2718) \div Scale
    ELSE (np_exp(k + 1) * Scale) \div 2718

\* 1 / (1 + np.exp(-weighted_sum))
sigmoid(weighted_sum) ==
    Num(weighted_sum.shape, (Scale * Scale) \div (Scale + np_exp(0 - weighted_sum.v)))

\* The boundary included.
predict_inclusive(sigm, threshold) == IF sigm.v >= threshold THEN 1 ELSE 0

\* if sigm > threshold: 1 else 0
predict(sigm, threshold) == IF sigm.v > threshold THEN 1 ELSE 0

\* One row short.
shape0_short(X) == Max(Len(X.rows) - 1, 0)

\* m_examples = X.shape[0]
shape0(X) == Len(X.rows)

RECURSIVE fp_loop(_, _, _, _, _, _, _)
fp_loop(X, weights, bias, threshold, m_examples, i, acc) ==
    IF i > m_examples THEN [status |-> "ok", ret |-> acc]
    ELSE LET example == X.rows[i]
             weighted_sum == get_weighted_sum(example, weights, bias)
         IN IF weighted_sum.status # "ok"
            THEN [status |-> weighted_sum.status, row |-> i - 1]
            ELSE LET sigm == sigmoid(weighted_sum.v)
                     y_hat == predict(sigm, threshold)
                 IN fp_loop(X, weights, bias, threshold, m_examples, i + 1,
                            <<Append(acc[1], y_hat),
                              Append(acc[2], weighted_sum.v),
                              Append(acc[3], sigm)>>)

\* Returns <<Y_hat, weighted_sums, sigmoids>>.
forward_prop(X, weights, bias, threshold) ==
    fp_loop(X, weights, bias, threshold, shape0(X), 1, << <<>>, <<>>, <<>> >>)

------------------------------------------------------------------------------
(* The random source: np.random.default_rng and the Generator's draws *)

MaxExamples == 2     \* largest m_examples
MaxFeatures == 2     \* largest n_features
MaxSeed == 1         \* largest seed
Modulus == 2 ^ 4     \* number of states of the bit generator

\* A seed argument: None, or an integer.
NoSeed == [given |-> FALSE, v |-> 0]
SeedOf(v) == [given |-> TRUE, v |-> v]
Seeds == {NoSeed} \cup {SeedOf(v) : v \in -1..MaxSeed}

\* The states a generator seeded from the operating system's entropy can start in.
Entropy == {1, 6, 11, 12}

\* What the system's entropy contributes to a call: nothing when a seed is given.
EntropyFor(seed) == IF seed.given THEN {0} ELSE Entropy

\* The caller holds on to seeded results only (an unseeded one cannot be redone);
\* a call that raised left nothing to hold.
KeepFor(seed) == IF seed.given THEN BOOLEAN ELSE {FALSE}

\* The state a seed is expanded to.
seed_state(v) == (7 * v + 3) % Modulus

\* A generator cached between the calls: a call made right after a seeded one
\* is served from that call's seed instead of its own.
default_rng_shared(seed, entropy) ==
    IF seed.given /\ seed.v < 0 THEN [status |-> "ValueError"]
    ELSE IF call.fn \in {"generate_data", "network_init"} /\ call.out.status = "ok"
              /\ call.seed.given
         THEN [status |-> "ok", state |-> seed_state(call.seed.v)]
         ELSE IF ~seed.given THEN [status |-> "ok", state |-> entropy]
              ELSE [status |-> "ok", state |-> seed_state(seed.v)]

\* np.random.default_rng(seed): a new generator.  A negative seed is a
\* ValueError; without a seed the state comes from the system's entropy.
default_rng(seed, entropy) ==
    IF ~seed.given THEN [status |-> "ok", state |-> entropy]
    ELSE IF seed.v < 0 THEN [status |-> "ValueError"]
    ELSE [status |-> "ok", state |-> seed_state(seed.v)]

\* One step of the bit generator (a full-period congruential generator).
next_state(g) == (5 * g + 1) % Modulus

\* k successive draws: the uniform reals (numerators over Modulus, so each is
\* in [0,1)) and the state left behind.
RECURSIVE draws(_, _)
draws(g, k) ==
    IF k <= 0 THEN [vals |-> <<>>, state |-> g]
    ELSE LET d == draws(g, k - 1)
         IN [vals |-> Append(d.vals, next_state(d.state)),
             state |-> next_state(d.state)]

\* A negative dimension taken as an empty one.
negative_dimensions_allowed(r, c) == FALSE

\* numpy refuses a negative dimension.
negative_dimensions(r, c) == r < 0 \/ c < 0

\* generator.random((r, c)): r*c draws, filled row by row.
rng_random(g, r, c) ==
    IF negative_dimensions(r, c) THEN [status |-> "ValueError"]
    ELSE LET d == draws(g, Max(r, 0) * Max(c, 0))
         IN [status |-> "ok",
             rows |-> [i \in 1..r |-> [j \in 1..c |-> d.vals[(i - 1) * c + j]]],
             state |-> d.state]

\* generator.choice([0, 1], size): one draw per entry, its upper half is 1.
rng_choice(g, size) ==
    IF negative_dimensions(size, 0) THEN [status |-> "ValueError"]
    ELSE LET d == draws(g, size)
         IN [status |-> "ok",
             vals |-> [i \in 1..size |-> (2 * d.vals[i]) \div Modulus],
             state |-> d.state]

------------------------------------------------------------------------------
(* generate_data *)

\* ['x' + str(i) for i in range(n_features)], each name given by its i.
column_names(n_features) == [i \in 1..n_features |-> i - 1]

generate_data(m_examples, n_features, seed, entropy) ==
    LET generator == default_rng(seed, entropy)
    IN IF generator.status # "ok" THEN [status |-> generator.status]
       ELSE LET features == rng_random(generator.state, m_examples, n_features)
            IN IF features.status # "ok" THEN [status |-> features.status]
               ELSE LET targets == rng_choice(features.state, m_examples)
                    IN IF targets.status # "ok" THEN [status |-> targets.status]
                       ELSE [status |-> "ok",
                             columns |-> column_names(n_features),
                             features |-> features.rows,
                             targets |-> targets.vals]

------------------------------------------------------------------------------
(* network_init *)

\* A second generator built from the same seed.
bias_generator_fresh(seeded, advanced) == seeded

\* The generator the bias is drawn from: the one the weights were drawn from,
\* in the state they left it.
bias_generator(seeded, advanced) == advanced

network_init(n_features, random_bias, seed, entropy) ==
    LET generator == default_rng(seed, entropy)
    IN IF generator.status # "ok" THEN [status |-> generator.status]
       ELSE LET w == rng_random(generator.state, 1, n_features)
            IN IF w.status # "ok" THEN [status |-> w.status]
               ELSE IF random_bias
                    THEN LET b == rng_random(bias_generator(generator.state, w.state), 1, 1)
                         IN [status |-> "ok", weights |-> w.rows[1],
                             bias |-> Num("array1", b.rows[1][1])]
                    ELSE [status |-> "ok", weights |-> w.rows[1],
                          bias |-> Num("scalar", 0)]

------------------------------------------------------------------------------
(* The arguments the calls are made with *)

DefaultThreshold == 500      \* threshold=0.5

\* The docstring example of confusion_matrix.
DocY == <<1, 0, 1, 0, 1>>
DocY_hat == <<1, 1, 1, 0, 0>>

BiasVals == {-1, 0}
Biases == {Num(shape, v) : shape \in {"scalar", "array1"}, v \in BiasVals}

\* The default threshold and the probabilities of the weighted sums -1, 0, 1,
\* so that a probability can equal the threshold.
Thresholds == {DefaultThreshold} \cup {sigmoid(Num("scalar", z)).v : z \in -1..1}

\* X: a two-dimensional array of shape (rows, cols); an array with no row
\* still has its number of columns.
Matrices ==
    UNION {{[cols |-> c, rows |-> r] : r \in SeqsUpTo([1..c -> Features], MaxRows)} :
           c \in 0..MaxCols}

CMInputs ==
    {[fn |-> "confusion_matrix", Y |-> y, Y_hat |-> h] :
        y \in SeqsUpTo(Labels, MaxLen), h \in SeqsUpTo(Labels, MaxLen)}
    \cup {[fn |-> "confusion_matrix", Y |-> DocY, Y_hat |-> DocY_hat]}

CEInputs ==
    {[fn |-> "cross_entropy", Y |-> y, sigmoids |-> p] :
        y \in SeqsUpTo(Binary, MaxLen), p \in SeqsUpTo(ProbGrid, MaxLen)}

FPInputs ==
    {[fn |-> "forward_prop", X |-> x, weights |-> w, bias |-> b, threshold |-> t] :
        x \in Matrices, w \in SeqsUpTo(WeightVals, MaxCols),
        b \in Biases, t \in Thresholds}

Inputs == CMInputs \cup CEInputs \cup FPInputs

------------------------------------------------------------------------------
(* One call of a pure function on the arguments drawn at the start *)

Init ==
    /\ input \in Inputs
    /\ call = NoCall
    /\ kept = Nothing

ConfusionMatrix ==
    /\ input.fn = "confusion_matrix"
    /\ call = NoCall
    /\ call' = [fn |-> "confusion_matrix", Y |-> input.Y, Y_hat |-> input.Y_hat,
                out |-> confusion_matrix(input.Y, input.Y_hat)]
    /\ UNCHANGED <<input, kept>>

CrossEntropy ==
    /\ input.fn = "cross_entropy"
    /\ call = NoCall
    /\ call' = [fn |-> "cross_entropy", Y |-> input.Y, sigmoids |-> input.sigmoids,
                out |-> cross_entropy(input.Y, input.sigmoids)]
    /\ UNCHANGED <<input, kept>>

ForwardProp ==
    /\ input.fn = "forward_prop"
    /\ call = NoCall
    /\ call' = [fn |-> "forward_prop", X |-> input.X, weights |-> input.weights,
                bias |-> input.bias, threshold |-> input.threshold,
                out |-> forward_prop(input.X, input.weights, input.bias,
                                     input.threshold)]
    /\ UNCHANGED <<input, kept>>

Next == ConfusionMatrix \/ CrossEntropy \/ ForwardProp

Spec == Init /\ [][Next]_vars

------------------------------------------------------------------------------
(* Calls one after another; the caller may hold on to an earlier result *)

InitSession ==
    /\ input = NoInput
    /\ call = NoCall
    /\ kept = Nothing

\* confusion_matrix evaluated again and again.
ConfusionMatrixRepeated ==
    \E Y \in SeqsUpTo(Binary, MaxRepeatLen), Y_hat \in SeqsUpTo(Binary, MaxRepeatLen),
       keep \in BOOLEAN :
        LET c == [fn |-> "confusion_matrix", Y |-> Y, Y_hat |-> Y_hat,
                  out |-> confusion_matrix(Y, Y_hat)]
        IN /\ call' = c
           /\ kept' = IF keep THEN [fn |-> c.fn, matrix |-> c.out.matrix] ELSE kept
           /\ UNCHANGED input

SpecRepeat == InitSession /\ [][ConfusionMatrixRepeated]_vars

GenerateData ==
    \E m_examples \in -1..MaxExamples, n_features \in -1..MaxFeatures,
       seed \in Seeds :
      \E entropy \in EntropyFor(seed), keep \in KeepFor(seed) :
        LET c == [fn |-> "generate_data", m_examples |-> m_examples,
                  n_features |-> n_features, seed |-> seed,
                  out |-> generate_data(m_examples, n_features, seed, entropy)]
        IN /\ call' = c
           /\ kept' = IF keep /\ c.out.status = "ok" THEN c ELSE kept
           /\ UNCHANGED input

NetworkInit ==
    \E n_features \in -1..MaxFeatures, random_bias \in BOOLEAN,
       seed \in Seeds :
      \E entropy \in EntropyFor(seed), keep \in KeepFor(seed) :
        LET c == [fn |-> "network_init", n_features |-> n_features,
                  random_bias |-> random_bias, seed |-> seed,
                  out |-> network_init(n_features, random_bias, seed, entropy)]
        IN /\ call' = c
           /\ kept' = IF keep /\ c.out.status = "ok" THEN c ELSE kept
           /\ UNCHANGED input

NextRandom == GenerateData \/ NetworkInit

SpecRandom == InitSession /\ [][NextRandom]_vars

------------------------------------------------------------------------------
(* Properties *)

IsCM == call.fn = "confusion_matrix"
IsCE == call.fn = "cross_entropy"
IsFP == call.fn = "forward_prop"
IsGD == call.fn = "generate_data"
IsNI == call.fn = "network_init"

\* The number of paired positions k with Y[k] = y and Y_hat[k] = h.
PairCount(Y, Y_hat, y, h) ==
    Cardinality({k \in 1..Min(Len(Y), Len(Y_hat)) : Y[k] = y /\ Y_hat[k] = h})

AllBinary(Y) == \A k \in 1..Len(Y) : Y[k] \in Binary

\* [0][0]=TP, [0][1]=FN, [1][0]=FP, [1][1]=TN, counted over binary pairs.
LayoutHolds ==
    (IsCM /\ Len(call.Y) = Len(call.Y_hat) /\ AllBinary(call.Y) /\ AllBinary(call.Y_hat))
    => /\ call.out.status = "ok"
       /\ call.out.matrix[1][1] = PairCount(call.Y, call.Y_hat, 1, 1)
       /\ call.out.matrix[1][2] = PairCount(call.Y, call.Y_hat, 1, 0)
       /\ call.out.matrix[2][1] = PairCount(call.Y, call.Y_hat, 0, 1)
       /\ call.out.matrix[2][2] = PairCount(call.Y, call.Y_hat, 0, 0)

IsDocExample == IsCM /\ call.Y = DocY /\ call.Y_hat = DocY_hat

CellSum(matrix) == matrix[1][1] + matrix[1][2] + matrix[2][1] + matrix[2][2]

RECURSIVE RowSum(_, _)
RowSum(x, w) == IF x = <<>> THEN 0 ELSE Head(x) * Head(w) + RowSum(Tail(x), Tail(w))

\* C3: the prediction at index i is 1 exactly when the probability at index i,
\* the sigmoid of row i's weighted sum, is strictly greater than the
\* threshold, and 0 otherwise; a probability equal to the threshold gives 0.
C3_StrictThreshold ==
    (IsFP /\ call.out.status = "ok")
    => \A i \in 1..Len(call.out.ret[1]) :
        LET y_hat == call.out.ret[1][i]
            p == call.out.ret[3][i]
        IN /\ y_hat \in {0, 1}
           /\ y_hat = 1 <=> p.v > call.threshold
           /\ p.v = call.threshold => y_hat = 0
           /\ p = sigmoid(Num(call.bias.shape,
                              RowSum(call.X.rows[i], call.weights) + call.bias.v))

C3_Witness ==
    /\ IsFP
    /\ call.out.status = "ok"
    /\ Len(call.out.ret[1]) = 2
    /\ call.out.ret[3][1].v = call.threshold
    /\ call.out.ret[1][1] = 0
    /\ call.out.ret[1][2] = 1

Conforms == call.X.cols = Len(call.weights)

\* C4: forward_prop returns <<predictions, weighted sums, probabilities>>, each
\* with one entry per row of X, entry i computed from row i; with no row all
\* three are empty.  (X conforms to the weights, or has no row: C9 is the
\* other case.)
C4_Aligned ==
    (IsFP /\ (Conforms \/ Len(call.X.rows) = 0))
    => /\ call.out.status = "ok"
       /\ \A s \in 1..3 : Len(call.out.ret[s]) = Len(call.X.rows)
       /\ \A i \in 1..Len(call.X.rows) :
            /\ call.out.ret[2][i] =
                 Num(call.bias.shape, RowSum(call.X.rows[i], call.weights) + call.bias.v)
            /\ call.out.ret[3][i] = sigmoid(call.out.ret[2][i])
            /\ call.out.ret[1][i] \in {0, 1}
       /\ Len(call.X.rows) = 0 => call.out.ret = << <<>>, <<>>, <<>> >>

C4_Witness ==
    /\ IsFP
    /\ Conforms
    /\ Len(call.X.rows) = 2
    /\ call.out.status = "ok"
    /\ call.out.ret[2][1].v # call.out.ret[2][2].v
    /\ call.out.ret[3][1].v # call.out.ret[3][2].v

\* C9: with a column count other than len(weights), forward_prop on an X with
\* a row raises get_weighted_sum's error at row 0 and returns nothing; on an X
\* with no row it returns three empty sequences.
C9_ShapeMismatch ==
    (IsFP /\ ~Conforms)
    => /\ Len(call.X.rows) >= 1 =>
            /\ call.out.status = "ValueError"
            /\ call.out.row = 0
            /\ "ret" \notin DOMAIN call.out
       /\ Len(call.X.rows) = 0 =>
            /\ call.out.status = "ok"
            /\ call.out.ret = << <<>>, <<>>, <<>> >>

C9_Witness ==
    /\ IsFP
    /\ call.X.cols = 2
    /\ Len(call.weights) = 1
    /\ Len(call.X.rows) = 2
    /\ call.out.status = "ValueError"

\* The loss of one example.  For p strictly between 0 and 1 it is -log10(p)
\* when y = 1 and -log10(1 - p) when y = 0.  At p = 0 or p = 1 one logarithm
\* is -inf: the loss is +inf when that term counts, and nan when it is
\* multiplied by 0.
ExpectedLoss(y, p) ==
    LET q == IF y = 1 THEN p ELSE Scale - p
    IN IF q = 0 THEN PosInf
       ELSE IF q = Scale THEN NaN
       ELSE Fin(0 - log10(q).v)

\* C8: cross_entropy returns len(Y) losses, the i-th from Y[i] and sigmoids[i]
\* alone; surplus sigmoids are ignored; with fewer sigmoids than labels it
\* raises IndexError and returns nothing.
C8_OnePerExample ==
    IsCE =>
      /\ Len(call.sigmoids) >= Len(call.Y) =>
            /\ call.out.status = "ok"
            /\ Len(call.out.cost) = Len(call.Y)
            /\ \A i \in 1..Len(call.Y) :
                 call.out.cost[i] = ExpectedLoss(call.Y[i], call.sigmoids[i])
      /\ Len(call.sigmoids) < Len(call.Y) =>
            /\ call.out.status = "IndexError"
            /\ call.out.index = Len(call.sigmoids)
            /\ "cost" \notin DOMAIN call.out

C8_Witness ==
    /\ IsCE
    /\ Len(call.Y) = 2
    /\ Len(call.sigmoids) = 3
    /\ call.out.status = "ok"
    /\ Len(call.out.cost) = 2
    /\ call.out.cost[1].k = "fin"
    /\ call.out.cost[2].k = "nan"

\* The cells recounted from the arguments of a call alone.
Recount(Y, Y_hat) ==
    LET n == Min(Len(Y), Len(Y_hat))
        tp == Cardinality({k \in 1..n : Y[k] = 1 /\ Y_hat[k] = 1})
        fn == Cardinality({k \in 1..n : Y[k] = 1 /\ Y_hat[k] # 1})
        tn == Cardinality({k \in 1..n : Y[k] = 0 /\ Y_hat[k] = 0})
    IN << <<tp, fn>>, <<n - tp - fn - tn, tn>> >>

\* C10: whatever was evaluated before, each confusion_matrix call returns the
\* recount of its own arguments from zero, gives the matrix of the previous
\* call when its arguments are those of the previous call, and leaves Y and
\* Y_hat as they were.
C10_Recomputed ==
    [][call'.fn = "confusion_matrix" =>
         /\ call'.out.matrix = Recount(call'.Y, call'.Y_hat)
         /\ call'.out.Y = call'.Y
         /\ call'.out.Y_hat = call'.Y_hat
         /\ (IsCM /\ call'.Y = call.Y /\ call'.Y_hat = call.Y_hat)
               => call'.out.matrix = call.out.matrix]_vars

C10_Witness ==
    /\ IsCM
    /\ kept.fn = "confusion_matrix"
    /\ CellSum(kept.matrix) = 2
    /\ CellSum(call.out.matrix) = 2
    /\ kept.matrix # call.out.matrix

SameData(a, b) ==
    /\ a.fn = "generate_data"
    /\ b.fn = "generate_data"
    /\ a.m_examples = b.m_examples
    /\ a.n_features = b.n_features
    /\ a.seed = b.seed

Stream(v, k) == draws(seed_state(v), k).vals

\* a is network_init(n, random_bias=True, seed=s), b is
\* network_init(., random_bias=False, seed=s), and both returned.
BiasedAndPlain(a, b) ==
    /\ a.fn = "network_init"
    /\ b.fn = "network_init"
    /\ a.out.status = "ok"
    /\ b.out.status = "ok"
    /\ a.seed.given
    /\ a.seed = b.seed
    /\ a.random_bias
    /\ ~b.random_bias

\* C6: with random_bias=True the weights are draws 1..n of the seed's stream and
\* the bias is draw n+1: the weights are those of
\* network_init(n, random_bias=False, seed=s) and the bias is the last weight
\* of network_init(n+1, random_bias=False, seed=s).
C6_OneStream ==
    /\ (IsNI /\ call.out.status = "ok" /\ call.seed.given) =>
          /\ call.out.weights =
               SubSeq(Stream(call.seed.v, call.n_features + 1), 1, call.n_features)
          /\ call.random_bias =>
               call.out.bias =
                 Num("array1", Stream(call.seed.v, call.n_features + 1)[call.n_features + 1])
          /\ ~call.random_bias => call.out.bias = Num("scalar", 0)
    /\ \A p \in {<<kept, call>>, <<call, kept>>} :
          BiasedAndPlain(p[1], p[2]) =>
             /\ p[2].n_features = p[1].n_features =>
                  p[1].out.weights = p[2].out.weights
             /\ p[2].n_features = p[1].n_features + 1 =>
                  p[1].out.bias.v = p[2].out.weights[p[2].n_features]

C6_Witness ==
    /\ BiasedAndPlain(kept, call)
    /\ kept.n_features = 1
    /\ call.n_features = 2
    /\ kept.out.bias.v = call.out.weights[2]
    /\ kept.out.weights[1] = call.out.weights[1]
    /\ call.out.weights[1] # call.out.weights[2]

\* The dataset has m_examples rows of n_features features, the columns
\* x0..x(n_features-1), and m_examples targets.
Shaped(c) ==
    /\ c.out.status = "ok"
    /\ Len(c.out.features) = c.m_examples
    /\ \A i \in 1..Len(c.out.features) : Len(c.out.features[i]) = c.n_features
    /\ Len(c.out.columns) = c.n_features
    /\ Len(c.out.targets) = c.m_examples
    /\ \A i \in 1..Len(c.out.targets) : c.out.targets[i] \in Binary

====
